---- MODULE Spec2Model ----
(***************************************************************************)
(* The frame loop of main.cu: one controlling thread that, per tick, polls *)
(* the X event queue, maps the shared buffer into CUDA, launches the       *)
(* kernel, unmaps, draws and presents with OpenGL, advances the frame      *)
(* counter and sleeps.  Every external call is one step together with the  *)
(* error check the source places after it.                                 *)
(***************************************************************************)
EXTENDS Integers, Sequences, FiniteSets, TLC

(* ---------------------------------------------------------------------- *)
(* Program constants                                                      *)
(* ---------------------------------------------------------------------- *)
FPS == 30
NREDS == 1024
FragNREDS == 65536
ElementStride == 16
GridDim == 16
BlockDim == NREDS \div 16
SizeofRedsBuffer == NREDS * ElementStride

EXIT_SUCCESS == 0
EXIT_FAILURE == 1
SIGABRT == 134
NotExited == -1
Undef == -1
GL_INVALID_INDEX == -1
GL_NO_LOCATION == -1

(* ---------------------------------------------------------------------- *)
(* Bounds of the model                                                    *)
(* ---------------------------------------------------------------------- *)
MaxQuadTicks == 3
MaxQueue == 2
TraceLen == 11
TexDen == 4
MaxGroup == 1
MaxLane == 1
MaxKernelTime == 3

VARIABLES
    pc,                 \* position of the controlling thread in main
    i, j,               \* loop counters of main (i = 4: the quad loop)
    time,               \* the frame counter
    gl_element_buffer,  \* contents of the GL_ELEMENT_ARRAY_BUFFER
    registered,         \* the uniform buffer is registered with CUDA
    mapped,             \* the uniform buffer is mapped into CUDA space
    devptr_size,        \* local of calculate_reds
    reds_time,          \* time argument of the launch that last filled reds
    time_uniform,       \* value of the "time" uniform, as q + r/FPS
    xqueue,             \* pending X events
    exit_status,        \* status the process ended with
    trace,              \* the last TraceLen operations issued
    failed_op,          \* the operation that last reported an error
    drawn,              \* what the last draw was issued with
    ndraws,             \* number of draws issued
    rsrc,               \* struct resources: what setup created
    outstanding_maps,   \* successful maps not yet unmapped
    reds_coverage,      \* which elements the last launch wrote, how often
    nuploads,           \* number of index uploads
    reds,               \* contents of sampled elements of the reds buffer
    ran                 \* work-items of the current launch that have run

vars == <<pc, i, j, time, gl_element_buffer, registered, mapped, devptr_size,
          reds_time, time_uniform, xqueue, exit_status, trace, failed_op,
          drawn, ndraws, rsrc, outstanding_maps, reds_coverage, nuploads,
          reds, ran>>

(* ---------------------------------------------------------------------- *)
(* Data of main                                                           *)
(* ---------------------------------------------------------------------- *)
triangle_indices == << <<0, 1, 2>>, <<1, 2, 3>>, <<2, 3, 0>>, <<3, 0, 1>> >>
quad_indices == <<0, 1, 3, 2>>

cudaSuccess == "cudaSuccess"
CudaErrors == {cudaSuccess, "cudaErrorUnknown"}
GL_NO_ERROR == "GL_NO_ERROR"
GlErrors == {GL_NO_ERROR, "GL_INVALID_OPERATION"}

\* Events the window selects (StructureNotify, ButtonPress, KeyPress); a
\* KeyPress carries whether its keysym is a modifier key.
XEvents == { [type |-> "KeyPress", modifier |-> FALSE],
             [type |-> "KeyPress", modifier |-> TRUE],
             [type |-> "ButtonPress", modifier |-> FALSE],
             [type |-> "ConfigureNotify", modifier |-> FALSE] }

ReportedSizes == { SizeofRedsBuffer, SizeofRedsBuffer - ElementStride,
                   SizeofRedsBuffer + ElementStride }

NoDraw == [indices |-> <<>>, nvertices |-> 0, time |-> Undef,
           uniform |-> [q |-> 0, r |-> 0], reds_time |-> Undef,
           mapped |-> FALSE, red_idx |-> Undef]

\* static struct vertex vertices[4]
vertices == << [position |-> <<1, 1, 0>>, blue |-> 0],
               [position |-> <<-1, 1, 0>>, blue |-> 255],
               [position |-> <<-1, -1, 0>>, blue |-> 0],
               [position |-> <<1, -1, 0>>, blue |-> 255] >>

\* struct resources before setup: no storage, no program, nothing bound.
NoResources ==
    [gl_uniform_buffer |-> 0,
     gl_vertex_buffer |-> <<>>,
     vertex_uploads |-> 0,
     sources |-> [vertex |-> <<>>, fragment |-> <<>>],
     compiled |-> {},
     gl_program |-> "none",
     uniform_idx |-> Undef,
     slot0 |-> "none",
     slot0_binds |-> 0,
     gl_time_uniform_loc |-> Undef,
     cuda_flags |-> "none",
     registrations |-> 0]

\* int thread_id = blockIdx.x * blockDim.x + threadIdx.x
ThreadIdLaneOnly(b, l) == l
ThreadId(b, l) == b * BlockDim + l

\* if (thread_id < NREDS)
KernelGuard(tid) == tid < NREDS

\* The work-items of the launch <<<16, NREDS / 16>>>.
WorkItems == (0..(GridDim - 1)) \X (0..(BlockDim - 1))

\* The work-items whose elements the model keeps: the first lanes of the
\* first groups and the last work-item of the grid.
KernelSample ==
    ((0..MaxGroup) \X (0..MaxLane)) \cup {<<GridDim - 1, BlockDim - 1>>}
SampleTids == { ThreadId(w[1], w[2]) : w \in KernelSample }

\* pow(sinf(sinf(float(time) / 8.0) + float(thread_id) / 64.0), 2): the
\* closed form is kept as its two inputs.
RedValue(tid, t) == [thread_id |-> tid, time |-> t]

\* Contents the kernel did not write: glBufferData(..., NULL, ...) leaves
\* them undefined and a write-discard map preserves nothing.
Garbage == [thread_id |-> Undef, time |-> Undef]

NoCoverage == [writes |-> 0, distinct |-> 0, lo |-> Undef, hi |-> Undef]

Log(op) == IF Len(trace) < TraceLen THEN Append(trace, op)
           ELSE Append(Tail(trace), op)

Init ==
    /\ pc = "alloc_uniform_buffer"
    /\ i = 0 /\ j = 0
    /\ time = 0
    /\ gl_element_buffer = <<>>
    /\ registered = FALSE
    /\ mapped = FALSE
    /\ devptr_size = Undef
    /\ reds_time = Undef
    /\ time_uniform = [q |-> 0, r |-> 0]
    /\ xqueue = <<>>
    /\ exit_status = NotExited
    /\ trace = <<>>
    /\ failed_op = "none"
    /\ drawn = NoDraw
    /\ ndraws = 0
    /\ rsrc = NoResources
    /\ outstanding_maps = 0
    /\ reds_coverage = NoCoverage
    /\ nuploads = 0
    /\ reds = [tid \in SampleTids |-> Garbage]
    /\ ran = {}

(* ---------------------------------------------------------------------- *)
(* Helpers translated from the source                                     *)
(* ---------------------------------------------------------------------- *)

\* TRUE when the check reports the error and calls exit(EXIT_FAILURE).
cuda_errchk_ignored(err) == FALSE
cuda_errchk_inner(err) == err # cudaSuccess

gl_errchk_inner(err) == err # GL_NO_ERROR

\* assert(devptr_size == sizeof(struct reds_buffer))
devptr_size_ndebug(sz) == TRUE
devptr_size_ok(sz) == sz = SizeofRedsBuffer

is_quit_event_any_key(evt) ==
    \/ evt.type = "KeyPress"
    \/ evt.type = "ButtonPress"
is_quit_event(evt) ==
    IF evt.type = "KeyPress" THEN ~evt.modifier
    ELSE IF evt.type = "ButtonPress" THEN TRUE
    ELSE FALSE

\* XCheckIfEvent: the first queued event the predicate accepts, 0 if none.
FirstMatch(q) ==
    IF \E k \in 1..Len(q) : is_quit_event(q[k])
    THEN CHOOSE k \in 1..Len(q) :
            /\ is_quit_event(q[k])
            /\ \A m \in 1..(k - 1) : ~is_quit_event(q[m])
    ELSE 0

RemoveAt(q, k) == SubSeq(q, 1, k - 1) \o SubSeq(q, k + 1, Len(q))

\* Arguments main passes in phase ii (ii = 4: the quad loop).
elements_arg_one_based(ii) ==
    IF ii < 4 THEN [k \in 1..3 |-> triangle_indices[ii + 1][k] + 1]
    ELSE [k \in 1..4 |-> quad_indices[k] + 1]
elements_arg(ii) == IF ii < 4 THEN triangle_indices[ii + 1] ELSE quad_indices
nvertices_arg_always_four(ii) == 4
nvertices_arg(ii) == IF ii < 4 THEN 3 ELSE 4

\* for (int j = 0; j < FPS; j++)
inner_loop_off_by_one(jj) == jj <= FPS
inner_loop_continues(jj) == jj < FPS

\* float(time) / FPS, kept exactly as whole part q and remainder r (r/FPS).
TimeUniform(t) == [q |-> t \div FPS, r |-> t % FPS]

\* int red_idx = int(texCoord.y * NREDS), for texCoord.y = n / TexDen.
red_idx_of(n) == (n * FragNREDS) \div TexDen

\* thread_id values of the launch <<<16, NREDS / 16>>> that pass the guard.
KernelIndices ==
    { tid \in { ThreadId(w[1], w[2]) : w \in WorkItems } : KernelGuard(tid) }

\* What one launch writes: the number of writes, of distinct elements
\* written, and the lowest and highest element written.
Max(S) == CHOOSE x \in S : \A y \in S : y <= x
Min(S) == CHOOSE x \in S : \A y \in S : x <= y
KernelCoverage ==
    [writes |-> Cardinality({ w \in WorkItems : KernelGuard(ThreadId(w[1], w[2])) }),
     distinct |-> Cardinality(KernelIndices),
     lo |-> IF KernelIndices = {} THEN Undef ELSE Min(KernelIndices),
     hi |-> IF KernelIndices = {} THEN Undef ELSE Max(KernelIndices)]

Exit(status) == pc' = "exited" /\ exit_status' = status

Checked(fatal, next) ==
    IF fatal THEN Exit(EXIT_FAILURE)
    ELSE pc' = next /\ UNCHANGED exit_status

Failed(op, isError) == failed_op' = IF isError THEN op ELSE failed_op

(* ---------------------------------------------------------------------- *)
(* initialize_gl_resources, one step per group of GL calls and its check   *)
(* ---------------------------------------------------------------------- *)
loopvars == <<i, j, time, gl_element_buffer, registered, mapped, devptr_size,
              reds_time, time_uniform, xqueue, drawn, ndraws,
              outstanding_maps, reds_coverage, nuploads, reds, ran>>

\* The GL calls of one step, then GL_ERRCHK().
GlSetupStep(at, next, done) ==
    /\ pc = at
    /\ \E err \in GlErrors :
        /\ rsrc' = IF err = GL_NO_ERROR THEN done ELSE rsrc
        /\ Failed(at, err # GL_NO_ERROR)
        /\ Checked(gl_errchk_inner(err), next)
    /\ trace' = Log(at)
    /\ UNCHANGED loopvars

\* glGenBuffers, glBindBuffer, glBufferData(sizeof(struct reds_buffer), NULL)
alloc_uniform_buffer_no_storage ==
    GlSetupStep("alloc_uniform_buffer", "create_vao", rsrc)
alloc_uniform_buffer ==
    GlSetupStep("alloc_uniform_buffer", "create_vao",
                [rsrc EXCEPT !.gl_uniform_buffer = SizeofRedsBuffer])

create_vao ==
    GlSetupStep("create_vao", "upload_vertices", rsrc)

upload_vertices ==
    GlSetupStep("upload_vertices", "vertex_attribs",
                [rsrc EXCEPT !.gl_vertex_buffer = vertices,
                             !.vertex_uploads = @ + 1])

vertex_attribs ==
    GlSetupStep("vertex_attribs", "gen_element_buffer", rsrc)

gen_element_buffer ==
    GlSetupStep("gen_element_buffer", "compile_vertex", rsrc)

\* glShaderSource(shader, 1, shader_srcs, shader_lens): the first count
\* strings of shader_srcs are the source.
ShaderSourceCount == 1
ShaderSource(filename) ==
    SubSeq(<<filename, "util.glsl">>, 1, ShaderSourceCount)

\* read_shader fails with err(EXIT_FAILURE, ...); a GL error after
\* glShaderSource or after the compile, or a failed compile, exits too.
compile_shader(at, stage, filename, next) ==
    /\ pc = at
    /\ \E read_ok \in BOOLEAN, err \in GlErrors, is_compiled \in BOOLEAN :
        /\ rsrc' = IF read_ok /\ err = GL_NO_ERROR
                   THEN [rsrc EXCEPT
                           !.sources[stage] = ShaderSource(filename),
                           !.compiled = IF is_compiled THEN @ \cup {stage} ELSE @]
                   ELSE rsrc
        /\ Failed(at, ~read_ok \/ err # GL_NO_ERROR \/ ~is_compiled)
        /\ IF ~read_ok THEN Exit(EXIT_FAILURE)
           ELSE IF gl_errchk_inner(err) THEN Exit(EXIT_FAILURE)
           ELSE IF ~is_compiled THEN Exit(EXIT_FAILURE)
           ELSE pc' = next /\ UNCHANGED exit_status
    /\ trace' = Log(at)
    /\ UNCHANGED loopvars

compile_vertex ==
    compile_shader("compile_vertex", "vertex", "vertex.glsl", "compile_fragment")

compile_fragment ==
    compile_shader("compile_fragment", "fragment", "fragment.glsl", "link_program")

\* glAttachShader, glBindAttribLocation, glLinkProgram, GL_LINK_STATUS
link_program ==
    /\ pc = "link_program"
    /\ \E err \in GlErrors, is_linked \in BOOLEAN :
        /\ rsrc' = IF err = GL_NO_ERROR /\ is_linked
                   THEN [rsrc EXCEPT !.gl_program = "linked"]
                   ELSE rsrc
        /\ Failed("link_program", err # GL_NO_ERROR \/ ~is_linked)
        /\ IF gl_errchk_inner(err) THEN Exit(EXIT_FAILURE)
           ELSE IF ~is_linked THEN Exit(EXIT_FAILURE)
           ELSE pc' = "delete_shaders" /\ UNCHANGED exit_status
    /\ trace' = Log("link_program")
    /\ UNCHANGED loopvars

delete_shaders ==
    GlSetupStep("delete_shaders", "resolve_block", rsrc)

\* assert(uniform_idx != GL_INVALID_INDEX)
uniform_idx_ok(idx) == idx # GL_INVALID_INDEX

\* glGetUniformBlockIndex, the assert, glUniformBlockBinding(.., 0),
\* glBindBufferBase(GL_UNIFORM_BUFFER, 0, gl_uniform_buffer), GL_ERRCHK
resolve_block_slot_unbound ==
    /\ pc = "resolve_block"
    /\ \E err \in GlErrors, idx \in {0, GL_INVALID_INDEX} :
        /\ rsrc' = [rsrc EXCEPT !.uniform_idx = idx]
        /\ Failed("resolve_block", uniform_idx_ok(idx) /\ err # GL_NO_ERROR)
        /\ IF ~uniform_idx_ok(idx) THEN Exit(SIGABRT)
           ELSE Checked(gl_errchk_inner(err), "resolve_time")
    /\ trace' = Log("resolve_block")
    /\ UNCHANGED loopvars
resolve_block ==
    /\ pc = "resolve_block"
    /\ \E err \in GlErrors, idx \in {0, GL_INVALID_INDEX} :
        /\ rsrc' = IF uniform_idx_ok(idx) /\ err = GL_NO_ERROR
                   THEN [rsrc EXCEPT !.uniform_idx = idx,
                                     !.slot0 = "gl_uniform_buffer",
                                     !.slot0_binds = @ + 1]
                   ELSE [rsrc EXCEPT !.uniform_idx = idx]
        /\ Failed("resolve_block", uniform_idx_ok(idx) /\ err # GL_NO_ERROR)
        /\ IF ~uniform_idx_ok(idx) THEN Exit(SIGABRT)
           ELSE Checked(gl_errchk_inner(err), "resolve_time")
    /\ trace' = Log("resolve_block")
    /\ UNCHANGED loopvars

\* rsrc->gl_time_uniform_loc = glGetUniformLocation(gl_program, "time"):
\* -1 when the program has no active uniform of that name; nothing checks it.
resolve_time ==
    /\ pc = "resolve_time"
    /\ \E loc \in {0, GL_NO_LOCATION} :
        rsrc' = [rsrc EXCEPT !.gl_time_uniform_loc = loc]
    /\ pc' = "initialize_cuda_resources"
    /\ trace' = Log("resolve_time")
    /\ UNCHANGED <<exit_status, failed_op>>
    /\ UNCHANGED loopvars

(* ---------------------------------------------------------------------- *)
(* Setup: registration of the uniform buffer with CUDA                    *)
(* ---------------------------------------------------------------------- *)
initialize_cuda_resources ==
    /\ pc = "initialize_cuda_resources"
    /\ \E err \in CudaErrors :
        /\ registered' = (err = cudaSuccess)
        /\ rsrc' = IF err = cudaSuccess
                   THEN [rsrc EXCEPT
                           !.cuda_flags = "cudaGraphicsRegisterFlagsWriteDiscard",
                           !.registrations = @ + 1]
                   ELSE rsrc
        /\ Failed("register", err # cudaSuccess)
        /\ Checked(cuda_errchk_inner(err), "load_elements")
    /\ trace' = Log("register")
    /\ UNCHANGED <<outstanding_maps, reds_coverage, nuploads, reds, ran>>
    /\ UNCHANGED <<i, j, time, gl_element_buffer, mapped, devptr_size,
                   reds_time, time_uniform, xqueue, drawn, ndraws>>

(* ---------------------------------------------------------------------- *)
(* load_elements: glBufferData(GL_ELEMENT_ARRAY_BUFFER, ...), GL_ERRCHK    *)
(* ---------------------------------------------------------------------- *)
load_elements_appends ==
    /\ pc = "load_elements"
    /\ \E err \in GlErrors :
        /\ gl_element_buffer' =
              IF err = GL_NO_ERROR THEN gl_element_buffer \o elements_arg(i)
              ELSE gl_element_buffer
        /\ nuploads' = IF err = GL_NO_ERROR THEN nuploads + 1 ELSE nuploads
        /\ Failed("load_elements", err # GL_NO_ERROR)
        /\ Checked(gl_errchk_inner(err), "check_input")
    /\ trace' = Log("load_elements")
    /\ UNCHANGED <<rsrc, outstanding_maps, reds_coverage, reds, ran>>
    /\ UNCHANGED <<i, j, time, registered, mapped, devptr_size, reds_time,
                   time_uniform, xqueue, drawn, ndraws>>
load_elements ==
    /\ pc = "load_elements"
    /\ \E err \in GlErrors :
        /\ gl_element_buffer' =
              IF err = GL_NO_ERROR THEN elements_arg(i) ELSE gl_element_buffer
        /\ nuploads' = IF err = GL_NO_ERROR THEN nuploads + 1 ELSE nuploads
        /\ Failed("load_elements", err # GL_NO_ERROR)
        /\ Checked(gl_errchk_inner(err), "check_input")
    /\ trace' = Log("load_elements")
    /\ UNCHANGED <<rsrc, outstanding_maps, reds_coverage, reds, ran>>
    /\ UNCHANGED <<i, j, time, registered, mapped, devptr_size, reds_time,
                   time_uniform, xqueue, drawn, ndraws>>

(* ---------------------------------------------------------------------- *)
(* check_input: XCheckIfEvent(dpy, &evt, is_quit_event), exit on a match   *)
(* ---------------------------------------------------------------------- *)
check_input ==
    /\ pc = "check_input"
    /\ LET k == FirstMatch(xqueue) IN
        IF k # 0
        THEN /\ xqueue' = RemoveAt(xqueue, k)
             /\ Exit(EXIT_SUCCESS)
        ELSE /\ pc' = "map"
             /\ UNCHANGED <<xqueue, exit_status>>
    /\ trace' = Log("check_input")
    /\ UNCHANGED <<rsrc, outstanding_maps, reds_coverage, nuploads, reds, ran>>
    /\ UNCHANGED <<i, j, time, gl_element_buffer, registered, mapped,
                   devptr_size, reds_time, time_uniform, failed_op, drawn,
                   ndraws>>

(* ---------------------------------------------------------------------- *)
(* calculate_reds, one step per CUDA call and its CUDA_ERRCHK              *)
(* ---------------------------------------------------------------------- *)
MapResources ==
    /\ pc = "map"
    /\ \E err \in CudaErrors :
        /\ mapped' = IF err = cudaSuccess THEN TRUE ELSE mapped
        /\ outstanding_maps' =
              IF err = cudaSuccess THEN outstanding_maps + 1 ELSE outstanding_maps
        /\ Failed("map", err # cudaSuccess)
        /\ Checked(cuda_errchk_inner(err), "get_pointer")
    /\ devptr_size' = Undef
    /\ trace' = Log("map")
    /\ UNCHANGED <<rsrc, reds_coverage, nuploads, reds, ran>>
    /\ UNCHANGED <<i, j, time, gl_element_buffer, registered, reds_time,
                   time_uniform, xqueue, drawn, ndraws>>

\* The reported size is whatever the driver says; after a failed call the
\* local is uninitialised, which is also any value.
GetMappedPointer ==
    /\ pc = "get_pointer"
    /\ \E err \in CudaErrors, sz \in ReportedSizes :
        /\ devptr_size' = sz
        /\ Failed("get_pointer", err # cudaSuccess)
        /\ IF cuda_errchk_inner(err) THEN Exit(EXIT_FAILURE)
           ELSE IF ~devptr_size_ok(sz) THEN Exit(SIGABRT)
           ELSE pc' = "launch" /\ UNCHANGED exit_status
    /\ trace' = Log("get_pointer")
    /\ UNCHANGED <<rsrc, outstanding_maps, reds_coverage, nuploads, reds, ran>>
    /\ UNCHANGED <<i, j, time, gl_element_buffer, registered, mapped,
                   reds_time, time_uniform, xqueue, drawn, ndraws>>

LaunchKernel ==
    /\ pc = "launch"
    /\ \E err \in CudaErrors :
        /\ reds_time' = IF err = cudaSuccess THEN time ELSE reds_time
        /\ reds_coverage' = IF err = cudaSuccess THEN KernelCoverage ELSE reds_coverage
        /\ reds' = IF err = cudaSuccess
                   THEN [tid \in SampleTids |->
                           IF tid \in KernelIndices THEN RedValue(tid, time)
                           ELSE reds[tid]]
                   ELSE reds
        /\ Failed("launch", err # cudaSuccess)
        /\ Checked(cuda_errchk_inner(err), "unmap")
    /\ trace' = Log("launch")
    /\ UNCHANGED <<rsrc, outstanding_maps, nuploads, ran>>
    /\ UNCHANGED <<i, j, time, gl_element_buffer, registered, mapped,
                   devptr_size, time_uniform, xqueue, drawn, ndraws>>

UnmapResourcesSkipped ==
    /\ pc = "unmap"
    /\ pc' = "set_uniform"
    /\ trace' = Log("unmap")
    /\ UNCHANGED <<rsrc, outstanding_maps, reds_coverage, nuploads, reds, ran>>
    /\ UNCHANGED <<i, j, time, gl_element_buffer, registered, mapped,
                   devptr_size, reds_time, time_uniform, xqueue, exit_status,
                   failed_op, drawn, ndraws>>
UnmapResourcesKeepsMap ==
    /\ pc = "unmap"
    /\ \E err \in CudaErrors :
        /\ Failed("unmap", err # cudaSuccess)
        /\ Checked(cuda_errchk_inner(err), "set_uniform")
    /\ trace' = Log("unmap")
    /\ UNCHANGED <<rsrc, reds_coverage, nuploads, reds, ran>>
    /\ UNCHANGED <<i, j, time, gl_element_buffer, registered, devptr_size,
                   reds_time, time_uniform, xqueue, drawn, ndraws, mapped,
                   outstanding_maps>>
UnmapResources ==
    /\ pc = "unmap"
    /\ \E err \in CudaErrors :
        /\ mapped' = IF err = cudaSuccess THEN FALSE ELSE mapped
        /\ outstanding_maps' =
              IF err = cudaSuccess THEN outstanding_maps - 1 ELSE outstanding_maps
        /\ Failed("unmap", err # cudaSuccess)
        /\ Checked(cuda_errchk_inner(err), "set_uniform")
    /\ trace' = Log("unmap")
    /\ UNCHANGED <<rsrc, reds_coverage, nuploads, reds, ran>>
    /\ UNCHANGED <<i, j, time, gl_element_buffer, registered, devptr_size,
                   reds_time, time_uniform, xqueue, drawn, ndraws>>

(* ---------------------------------------------------------------------- *)
(* draw_frame: the uniform set and its check, then the draw and its check  *)
(* ---------------------------------------------------------------------- *)
SetTimeUniform ==
    /\ pc = "set_uniform"
    /\ \E err \in GlErrors :
        /\ time_uniform' =
              IF err = GL_NO_ERROR /\ rsrc.gl_time_uniform_loc # GL_NO_LOCATION
              THEN TimeUniform(time) ELSE time_uniform
        /\ Failed("set_uniform", err # GL_NO_ERROR)
        /\ Checked(gl_errchk_inner(err), "draw")
    /\ trace' = Log("set_uniform")
    /\ UNCHANGED <<rsrc, outstanding_maps, reds_coverage, nuploads, reds, ran>>
    /\ UNCHANGED <<i, j, time, gl_element_buffer, registered, mapped,
                   devptr_size, reds_time, xqueue, drawn, ndraws>>

\* glUniform1f with location -1 is silently ignored.
\* glDrawElements reads the element buffer; a fragment at texCoord.y =
\* n / TexDen reads reds[red_idx].
DrawPresent ==
    /\ pc = "draw"
    /\ \E err \in GlErrors, n \in 0..(TexDen - 1) :
        /\ drawn' = [indices |-> gl_element_buffer,
                     nvertices |-> nvertices_arg(i),
                     time |-> time,
                     uniform |-> time_uniform,
                     reds_time |-> reds_time,
                     mapped |-> mapped,
                     red_idx |-> red_idx_of(n)]
        /\ Failed("draw", err # GL_NO_ERROR)
        /\ Checked(gl_errchk_inner(err), "incr")
    /\ ndraws' = ndraws + 1
    /\ trace' = Log("draw")
    /\ UNCHANGED <<rsrc, outstanding_maps, reds_coverage, nuploads, reds, ran>>
    /\ UNCHANGED <<i, j, time, gl_element_buffer, registered, mapped,
                   devptr_size, reds_time, time_uniform, xqueue>>

(* ---------------------------------------------------------------------- *)
(* time++ and usleep, with the loop control of main                        *)
(* ---------------------------------------------------------------------- *)
IncrementTimeSkipSleep ==
    /\ pc = "incr"
    /\ time < 4 * FPS + MaxQuadTicks
    /\ time' = time + 1
    /\ pc' = "check_input"
    /\ trace' = Log("incr")
    /\ UNCHANGED <<rsrc, outstanding_maps, reds_coverage, nuploads, reds, ran>>
    /\ UNCHANGED <<i, j, gl_element_buffer, registered, mapped, devptr_size,
                   reds_time, time_uniform, xqueue, exit_status, failed_op,
                   drawn, ndraws>>
IncrementTimeReset ==
    /\ pc = "incr"
    /\ time < 4 * FPS + MaxQuadTicks
    /\ time' = IF i < 4 /\ j + 1 = FPS THEN 0 ELSE time + 1
    /\ pc' = "sleep"
    /\ trace' = Log("incr")
    /\ UNCHANGED <<rsrc, outstanding_maps, reds_coverage, nuploads, reds, ran>>
    /\ UNCHANGED <<i, j, gl_element_buffer, registered, mapped, devptr_size,
                   reds_time, time_uniform, xqueue, exit_status, failed_op,
                   drawn, ndraws>>
IncrementTime ==
    /\ pc = "incr"
    /\ time < 4 * FPS + MaxQuadTicks
    /\ time' = time + 1
    /\ pc' = "sleep"
    /\ trace' = Log("incr")
    /\ UNCHANGED <<rsrc, outstanding_maps, reds_coverage, nuploads, reds, ran>>
    /\ UNCHANGED <<i, j, gl_element_buffer, registered, mapped, devptr_size,
                   reds_time, time_uniform, xqueue, exit_status, failed_op,
                   drawn, ndraws>>

SleepInterruptedByQuit ==
    /\ pc = "sleep"
    /\ IF FirstMatch(xqueue) # 0
       THEN Exit(EXIT_SUCCESS) /\ UNCHANGED <<i, j>>
       ELSE /\ UNCHANGED exit_status
            /\ IF i < 4
               THEN IF inner_loop_continues(j + 1)
                    THEN pc' = "check_input" /\ j' = j + 1 /\ i' = i
                    ELSE pc' = "load_elements" /\ j' = 0 /\ i' = i + 1
               ELSE pc' = "check_input" /\ UNCHANGED <<i, j>>
    /\ trace' = Log("usleep")
    /\ UNCHANGED <<rsrc, outstanding_maps, reds_coverage, nuploads, reds, ran>>
    /\ UNCHANGED <<time, gl_element_buffer, registered, mapped, devptr_size,
                   reds_time, time_uniform, xqueue, failed_op, drawn, ndraws>>
SleepRestartsPhases ==
    /\ pc = "sleep"
    /\ IF i < 4
       THEN IF inner_loop_continues(j + 1)
            THEN pc' = "check_input" /\ j' = j + 1 /\ i' = i
            ELSE pc' = "load_elements" /\ j' = 0 /\ i' = i + 1
       ELSE pc' = "load_elements" /\ j' = 0 /\ i' = 0
    /\ trace' = Log("usleep")
    /\ UNCHANGED <<rsrc, outstanding_maps, reds_coverage, nuploads, reds, ran>>
    /\ UNCHANGED <<time, gl_element_buffer, registered, mapped, devptr_size,
                   reds_time, time_uniform, xqueue, exit_status, failed_op,
                   drawn, ndraws>>
Sleep ==
    /\ pc = "sleep"
    /\ IF i < 4
       THEN IF inner_loop_continues(j + 1)
            THEN pc' = "check_input" /\ j' = j + 1 /\ i' = i
            ELSE pc' = "load_elements" /\ j' = 0 /\ i' = i + 1
       ELSE pc' = "check_input" /\ UNCHANGED <<i, j>>
    /\ trace' = Log("usleep")
    /\ UNCHANGED <<rsrc, outstanding_maps, reds_coverage, nuploads, reds, ran>>
    /\ UNCHANGED <<time, gl_element_buffer, registered, mapped, devptr_size,
                   reds_time, time_uniform, xqueue, exit_status, failed_op,
                   drawn, ndraws>>

(* ---------------------------------------------------------------------- *)
(* The X server delivers an event                                          *)
(* ---------------------------------------------------------------------- *)
XEventArrives ==
    /\ pc # "exited"
    /\ Len(xqueue) < MaxQueue
    /\ \E evt \in XEvents : xqueue' = Append(xqueue, evt)
    /\ UNCHANGED <<rsrc, outstanding_maps, reds_coverage, nuploads, reds, ran>>
    /\ UNCHANGED <<pc, i, j, time, gl_element_buffer, registered, mapped,
                   devptr_size, reds_time, time_uniform, exit_status, trace,
                   failed_op, drawn, ndraws>>

Next ==
    \/ alloc_uniform_buffer
    \/ create_vao
    \/ upload_vertices
    \/ vertex_attribs
    \/ gen_element_buffer
    \/ compile_vertex
    \/ compile_fragment
    \/ link_program
    \/ delete_shaders
    \/ resolve_block
    \/ resolve_time
    \/ initialize_cuda_resources
    \/ load_elements
    \/ check_input
    \/ MapResources
    \/ GetMappedPointer
    \/ LaunchKernel
    \/ UnmapResources
    \/ SetTimeUniform
    \/ DrawPresent
    \/ IncrementTime
    \/ Sleep
    \/ XEventArrives

Spec == Init /\ [][Next]_vars

TypeOK ==
    /\ pc \in {"alloc_uniform_buffer", "create_vao", "upload_vertices",
               "vertex_attribs", "gen_element_buffer", "compile_vertex",
               "compile_fragment", "link_program", "delete_shaders",
               "resolve_block", "resolve_time",
               "initialize_cuda_resources", "load_elements", "check_input",
               "map", "get_pointer", "launch", "unmap", "set_uniform",
               "draw", "incr", "sleep", "exited"}
    /\ i \in 0..4 /\ j \in 0..(FPS - 1)
    /\ time \in 0..(4 * FPS + MaxQuadTicks)
    /\ mapped \in BOOLEAN /\ registered \in BOOLEAN
    /\ Len(xqueue) <= MaxQueue
    /\ exit_status \in {NotExited, EXIT_SUCCESS, EXIT_FAILURE, SIGABRT}

(* ---------------------------------------------------------------------- *)
(* One launch of calculate_reds_kernel, work-item by work-item             *)
(* ---------------------------------------------------------------------- *)

\* The operations main has issued when it launches the kernel of tick t.
SetupOps == <<"alloc_uniform_buffer", "create_vao", "upload_vertices",
              "vertex_attribs", "gen_element_buffer", "compile_vertex",
              "compile_fragment", "link_program", "delete_shaders",
              "resolve_block", "resolve_time", "register", "load_elements">>
TickOps == <<"check_input", "map", "get_pointer", "launch", "unmap",
             "set_uniform", "draw", "incr", "usleep">>
RECURSIVE Repeat(_, _)
Repeat(ops, n) == IF n = 0 THEN <<>> ELSE ops \o Repeat(ops, n - 1)
LastN(ops, n) ==
    IF Len(ops) <= n THEN ops ELSE SubSeq(ops, Len(ops) - n + 1, Len(ops))
HistoryAtLaunch(t) ==
    SetupOps \o Repeat(TickOps, t) \o <<"check_input", "map", "get_pointer">>

ResourcesReady ==
    [gl_uniform_buffer |-> SizeofRedsBuffer,
     gl_vertex_buffer |-> vertices,
     vertex_uploads |-> 1,
     sources |-> [vertex |-> ShaderSource("vertex.glsl"),
                  fragment |-> ShaderSource("fragment.glsl")],
     compiled |-> {"vertex", "fragment"},
     gl_program |-> "linked",
     uniform_idx |-> 0,
     slot0 |-> "gl_uniform_buffer",
     slot0_binds |-> 1,
     gl_time_uniform_loc |-> 0,
     cuda_flags |-> "cudaGraphicsRegisterFlagsWriteDiscard",
     registrations |-> 1]

\* The state of main at the launch of tick t (t < FPS, no event queued, no
\* work-item run yet).  The buffer holds what the map left there: anything,
\* in particular what the launch before wrote.
KernelInit ==
    \E t \in 0..MaxKernelTime :
        /\ pc = "launch"
        /\ i = 0 /\ j = t
        /\ time = t
        /\ gl_element_buffer = elements_arg(0)
        /\ registered = TRUE
        /\ mapped = TRUE
        /\ devptr_size = SizeofRedsBuffer
        /\ reds_time = IF t = 0 THEN Undef ELSE t - 1
        /\ time_uniform = IF t = 0 THEN [q |-> 0, r |-> 0] ELSE TimeUniform(t - 1)
        /\ xqueue = <<>>
        /\ exit_status = NotExited
        /\ trace = LastN(HistoryAtLaunch(t), TraceLen)
        /\ failed_op = "none"
        /\ drawn = IF t = 0 THEN NoDraw
                   ELSE [indices |-> elements_arg(0),
                         nvertices |-> nvertices_arg(0),
                         time |-> t - 1,
                         uniform |-> TimeUniform(t - 1),
                         reds_time |-> t - 1,
                         mapped |-> FALSE,
                         red_idx |-> red_idx_of(0)]
        /\ ndraws = t
        /\ rsrc = ResourcesReady
        /\ outstanding_maps = 1
        /\ reds_coverage = IF t = 0 THEN NoCoverage ELSE KernelCoverage
        /\ nuploads = 1
        /\ reds \in { [tid \in SampleTids |-> Garbage],
                      [tid \in SampleTids |-> RedValue(tid, t - 1)] }
        /\ ran = {}

\* The kernel body for the work-item (blockIdx.x, threadIdx.x) = w.
RunWorkItemKeepsWritten(w) ==
    /\ pc = "launch"
    /\ w \in KernelSample \ ran
    /\ LET tid == ThreadId(w[1], w[2]) IN
        reds' = IF KernelGuard(tid) /\ reds[tid] = Garbage
                THEN [reds EXCEPT ![tid] = RedValue(tid, time)]
                ELSE reds
    /\ ran' = ran \cup {w}
    /\ UNCHANGED <<pc, i, j, time, gl_element_buffer, registered, mapped,
                   devptr_size, reds_time, time_uniform, xqueue, exit_status,
                   trace, failed_op, drawn, ndraws, rsrc, outstanding_maps,
                   reds_coverage, nuploads>>
RunWorkItem(w) ==
    /\ pc = "launch"
    /\ w \in KernelSample \ ran
    /\ LET tid == ThreadId(w[1], w[2]) IN
        reds' = IF KernelGuard(tid)
                THEN [reds EXCEPT ![tid] = RedValue(tid, time)]
                ELSE reds
    /\ ran' = ran \cup {w}
    /\ UNCHANGED <<pc, i, j, time, gl_element_buffer, registered, mapped,
                   devptr_size, reds_time, time_uniform, xqueue, exit_status,
                   trace, failed_op, drawn, ndraws, rsrc, outstanding_maps,
                   reds_coverage, nuploads>>

KernelNext == \E w \in KernelSample : RunWorkItem(w)

KernelSpec == KernelInit /\ [][KernelNext]_vars

\* The frame loop under the scheduling of a single thread that keeps
\* running: every call of main returns, so the next step is taken.
ProgramStep ==
    \/ alloc_uniform_buffer \/ create_vao \/ upload_vertices
    \/ vertex_attribs \/ gen_element_buffer \/ compile_vertex
    \/ compile_fragment \/ link_program \/ delete_shaders
    \/ resolve_block \/ resolve_time \/ initialize_cuda_resources
    \/ load_elements \/ check_input \/ MapResources \/ GetMappedPointer
    \/ LaunchKernel \/ UnmapResources \/ SetTimeUniform \/ DrawPresent
    \/ IncrementTime \/ Sleep

\* A run in which no termination input arrives and no error is detected:
\* no check fails, no assert aborts, no queued event passes is_quit_event.
NoErrorNoQuit ==
    /\ failed_op = "none"
    /\ exit_status \notin {EXIT_FAILURE, SIGABRT}
    /\ FirstMatch(xqueue) = 0

QuietNext ==
    \/ ProgramStep /\ NoErrorNoQuit'
    \/ XEventArrives /\ NoErrorNoQuit'

QuietSpec == Init /\ [][QuietNext]_vars /\ WF_vars(ProgramStep)

(* ====================================================================== *)
(* Properties                                                             *)
(* ====================================================================== *)
LastOp == IF trace = <<>> THEN "none" ELSE trace[Len(trace)]

\* The termination input as the specification words it: a key press that
\* is not a pure modifier, or a pointer-button press.
QuitInput(evt) ==
    \/ evt.type = "KeyPress" /\ ~evt.modifier
    \/ evt.type = "ButtonPress"
QuitPending == \E k \in 1..Len(xqueue) : QuitInput(xqueue[k])

(* ---------------------------------------------------------------------- *)
\* C1: Ownership exclusivity.  The draw is never issued while the shared
\* buffer is mapped for compute, and the kernel launch is never issued
\* while the buffer is unmapped.
OwnershipExclusivity ==
    /\ ndraws > 0 => ~drawn.mapped
    /\ LastOp = "draw" => ~mapped
    /\ LastOp = "launch" => mapped

\* A second draw has just been issued on a buffer the kernel of this tick
\* filled and the unmap returned to graphics.
OwnershipExclusivityWitness ==
    /\ LastOp = "draw" /\ ndraws >= 2
    /\ ~mapped /\ reds_time = time /\ time >= 1

(* ---------------------------------------------------------------------- *)
\* C2: Phase sequencing.  At every draw the active index buffer is
\* {0,1,2} for a counter in [0,FPS), {1,2,3} in [FPS,2*FPS), {2,3,0} in
\* [2*FPS,3*FPS), {3,0,1} in [3*FPS,4*FPS) and {0,1,3,2} from 4*FPS on.
ExpectedIndices(t) ==
    IF t < FPS THEN <<0, 1, 2>>
    ELSE IF t < 2 * FPS THEN <<1, 2, 3>>
    ELSE IF t < 3 * FPS THEN <<2, 3, 0>>
    ELSE IF t < 4 * FPS THEN <<3, 0, 1>>
    ELSE <<0, 1, 3, 2>>

PhaseSequencing ==
    ndraws > 0 => drawn.indices = ExpectedIndices(drawn.time)

\* The draw of tick 4*FPS, the first one with the quad strip.
PhaseSequencingWitness ==
    /\ ndraws > 0 /\ drawn.time = 4 * FPS
    /\ drawn.indices = <<0, 1, 3, 2>>

(* ---------------------------------------------------------------------- *)
\* C3: Per-tick ordering.  Every tick performs poll, map, pointer query,
\* kernel launch, unmap, draw, counter increment, sleep in this order, each
\* once, and the poll of the next tick follows the sleep of this one.
TickOrder == <<"check_input", "map", "get_pointer", "launch", "unmap",
               "draw", "incr", "usleep">>
IsTickStep(op) == \E k \in 1..Len(TickOrder) : TickOrder[k] = op
TickSteps == SelectSeq(trace, IsTickStep)

\* What may directly follow an operation: the claimed order, with the
\* uniform set as the first half of draw_frame and an index upload allowed
\* only between a sleep and the following poll.
MayFollow(op) ==
    IF op = "check_input" THEN {"map"}
    ELSE IF op = "map" THEN {"get_pointer"}
    ELSE IF op = "get_pointer" THEN {"launch"}
    ELSE IF op = "launch" THEN {"unmap"}
    ELSE IF op = "unmap" THEN {"set_uniform"}
    ELSE IF op = "set_uniform" THEN {"draw"}
    ELSE IF op = "draw" THEN {"incr"}
    ELSE IF op = "incr" THEN {"usleep"}
    ELSE IF op = "usleep" THEN {"check_input", "load_elements"}
    ELSE IF op = "load_elements" THEN {"check_input"}
    ELSE IF op = "register" THEN {"load_elements"}
    ELSE IF op = "alloc_uniform_buffer" THEN {"create_vao"}
    ELSE IF op = "create_vao" THEN {"upload_vertices"}
    ELSE IF op = "upload_vertices" THEN {"vertex_attribs"}
    ELSE IF op = "vertex_attribs" THEN {"gen_element_buffer"}
    ELSE IF op = "gen_element_buffer" THEN {"compile_vertex"}
    ELSE IF op = "compile_vertex" THEN {"compile_fragment"}
    ELSE IF op = "compile_fragment" THEN {"link_program"}
    ELSE IF op = "link_program" THEN {"delete_shaders"}
    ELSE IF op = "delete_shaders" THEN {"resolve_block"}
    ELSE IF op = "resolve_block" THEN {"resolve_time"}
    ELSE IF op = "resolve_time" THEN {"register"}
    ELSE {}

PerTickOrdering ==
    /\ \A k \in 1..(Len(trace) - 1) : trace[k + 1] \in MayFollow(trace[k])
    /\ (trace # <<>> /\ Len(trace) < TraceLen) => trace[1] = "alloc_uniform_buffer"

\* A whole tick of the quad phase lies in the window, the next has begun.
PerTickOrderingWitness ==
    /\ i = 4 /\ time = 4 * FPS + 1 /\ pc = "map"
    /\ Len(TickSteps) >= Len(TickOrder) + 1

(* ---------------------------------------------------------------------- *)
\* C4: Termination scenario.  When check_input runs with a non-modifier
\* key press or a button press pending, the process exits with status
\* zero at that check and does nothing afterwards; with only modifier key
\* presses or other events pending it goes on to the map.
TerminationScenario ==
    /\ [][ (pc = "check_input" /\ pc' # pc) =>
             IF QuitPending
             THEN pc' = "exited" /\ exit_status' = EXIT_SUCCESS
                  /\ time' = time /\ ndraws' = ndraws /\ mapped' = mapped
                  /\ reds_time' = reds_time
             ELSE pc' = "map" /\ exit_status' = NotExited ]_vars
    /\ [][ pc # "exited" ]_vars
    /\ [](exit_status = EXIT_SUCCESS => pc = "exited" /\ LastOp = "check_input")

\* The process has exited on a quit event after at least one frame, with a
\* modifier key press still in the queue.
TerminationScenarioWitness ==
    /\ exit_status = EXIT_SUCCESS /\ ndraws > 0
    /\ \E k \in 1..Len(xqueue) :
          xqueue[k].type = "KeyPress" /\ xqueue[k].modifier

(* ---------------------------------------------------------------------- *)
\* C5: Map-size invariant.  A reported size other than NREDS elements of
\* 16 bytes ends the process, with a non-zero status, before the kernel
\* launch and the draw of that tick; the kernel is launched only with the
\* expected size.
MapSizeInvariant ==
    /\ (LastOp = "get_pointer" /\ devptr_size # NREDS * ElementStride)
          => pc = "exited" /\ exit_status \notin {NotExited, EXIT_SUCCESS}
    /\ pc \in {"launch", "unmap", "set_uniform", "draw"}
          => devptr_size = NREDS * ElementStride
    /\ LastOp = "launch" => devptr_size = NREDS * ElementStride

\* A later tick's map reported a wrong size and the process aborted.
MapSizeInvariantWitness ==
    /\ LastOp = "get_pointer" /\ failed_op = "none"
    /\ devptr_size # NREDS * ElementStride
    /\ exit_status = SIGABRT /\ ndraws > 0 /\ reds_time < time

(* ---------------------------------------------------------------------- *)
\* C6: Buffer capacity agreement.  The element count of the kernel and of
\* the allocation equals the element count of the fragment stage, so every
\* index a fragment computes from a texture coordinate in [0,1) is one the
\* kernel has written.
BufferCapacityAgreement ==
    ndraws > 0 =>
        /\ drawn.red_idx \in KernelIndices
        /\ drawn.red_idx * ElementStride < SizeofRedsBuffer

(* ---------------------------------------------------------------------- *)
\* C7: Frame counter.  It starts at 0, advances by exactly 1 once per
\* completed tick, after the draw, is not reset at a phase change and
\* never decreases.
FrameCounter ==
    /\ [](/\ pc = "incr" => time = ndraws - 1
          /\ pc \notin {"incr", "exited"} => time = ndraws
          /\ (i < 4 /\ pc \in {"check_input", "map", "get_pointer", "launch",
                               "unmap", "set_uniform", "draw", "incr"})
                => time = i * FPS + j
          /\ (i = 4 /\ pc # "exited") => time >= 4 * FPS)
    /\ [][ \/ time' = time
           \/ time' = time + 1 /\ pc = "incr" /\ LastOp = "draw" ]_vars

\* The counter has passed every phase change and an increment in the quad
\* loop.
FrameCounterWitness ==
    pc = "sleep" /\ i = 4 /\ time = 4 * FPS + 1

(* ---------------------------------------------------------------------- *)
\* C8: Time input per tick.  In the tick with counter k the kernel is
\* launched with time = k and the time uniform is k / FPS for the same k:
\* 0.0 at tick 0 and 1.0 at tick FPS.
TimeInputPerTick ==
    /\ (LastOp = "launch" /\ failed_op = "none") => reds_time = time
    /\ ndraws > 0 =>
          /\ drawn.reds_time = drawn.time
          /\ drawn.uniform.r \in 0..(FPS - 1)
          /\ drawn.uniform.q * FPS + drawn.uniform.r = drawn.time
          /\ drawn.time = 0 => drawn.uniform = [q |-> 0, r |-> 0]
          /\ drawn.time = FPS => drawn.uniform = [q |-> 1, r |-> 0]

\* The draw of tick FPS, with the uniform at exactly one second.
TimeInputPerTickWitness ==
    /\ ndraws > 0 /\ drawn.time = FPS /\ drawn.reds_time = FPS
    /\ drawn.uniform = [q |-> 1, r |-> 0]

(* ---------------------------------------------------------------------- *)
\* C9: Fatal on any error.  When the check after a compute or graphics
\* operation sees an error the process ends there with a non-zero status:
\* the operation is not issued again and no later step is performed.
FatalOnAnyError ==
    failed_op # "none" =>
        /\ pc = "exited"
        /\ exit_status \notin {NotExited, EXIT_SUCCESS}
        /\ LastOp = failed_op
        /\ Len(trace) >= 2 => trace[Len(trace) - 1] # failed_op

\* The unmap of a later tick failed: the process is dead and that tick has
\* no draw.
FatalOnAnyErrorWitness ==
    /\ failed_op = "unmap" /\ pc = "exited" /\ ndraws > 0
    /\ drawn.time < time

(* ---------------------------------------------------------------------- *)
\* C10: Polled cancellation.  The termination input is examined once per
\* tick, right before the map; a quit event arriving later in the tick
\* leaves the tick's remaining steps as they are, and the process exits
\* with success from no other point than the check.
PolledCancellation ==
    /\ [][ (exit_status' = EXIT_SUCCESS /\ exit_status # EXIT_SUCCESS)
              => pc = "check_input" ]_vars
    /\ [][ (pc \notin {"check_input", "exited"} /\ pc' = "exited")
              => exit_status' # EXIT_SUCCESS
                 /\ (failed_op' # "none" \/ exit_status' = SIGABRT) ]_vars
    /\ [][ (pc = "check_input" /\ pc' # pc /\ QuitPending)
              => exit_status' = EXIT_SUCCESS ]_vars
    /\ [](\A k \in 1..(Len(trace) - 1) :
            /\ trace[k + 1] = "map" => trace[k] = "check_input"
            /\ trace[k] = "check_input" => trace[k + 1] = "map"
            /\ trace[k + 1] = "check_input"
                  => trace[k] \in {"usleep", "load_elements"})

\* A quit event is pending at the sleep of a tick whose check it missed,
\* after that tick's draw and increment.
PolledCancellationWitness ==
    /\ QuitPending /\ pc = "sleep" /\ LastOp = "incr"
    /\ ndraws = time /\ time >= 2 /\ drawn.time = time - 1

(* ---------------------------------------------------------------------- *)
\* Positions of main inside initialize_gl_resources, and inside the frame
\* loop (the loads of the index buffer included).
GlSetupPcs == {"alloc_uniform_buffer", "create_vao", "upload_vertices",
               "vertex_attribs", "gen_element_buffer", "compile_vertex",
               "compile_fragment", "link_program", "delete_shaders",
               "resolve_block", "resolve_time"}
LoopPcs == {"load_elements", "check_input", "map", "get_pointer", "launch",
            "unmap", "set_uniform", "draw", "incr", "sleep"}
QuadReached == i = 4 /\ pc \in LoopPcs \ {"load_elements"}

(* ---------------------------------------------------------------------- *)
\* C11: ShaderProgram all-or-nothing.  Whenever initialize_gl_resources
\* has returned, both stages compiled, the program linked, the reds_block
\* index was resolved and the location of the time uniform was resolved.
ShaderProgramAllOrNothing ==
    (pc \notin GlSetupPcs /\ pc # "exited") =>
        /\ rsrc.compiled = {"vertex", "fragment"}
        /\ rsrc.gl_program = "linked"
        /\ rsrc.uniform_idx # GL_INVALID_INDEX
        /\ rsrc.gl_time_uniform_loc # GL_NO_LOCATION

(* ---------------------------------------------------------------------- *)
\* C12: The quad phase is reached and is terminal.  When no termination
\* input arrives and no error is detected, the quad phase is reached, after
\* exactly 4 * FPS ticks; from then on the index sequence stays {0,1,3,2},
\* no triangle phase comes back, the process does not exit, and every tick
\* is followed by the next.
QuadPhaseTerminal ==
    /\ <>QuadReached
    /\ []((LastOp = "load_elements" /\ i = 4)
            => (time = 4 * FPS /\ ndraws = 4 * FPS))
    /\ [](QuadReached => (gl_element_buffer = quad_indices /\ time >= 4 * FPS))
    /\ [][i = 4 => i' = 4]_vars
    /\ [](pc # "exited")
    /\ \A t \in (4 * FPS)..(4 * FPS + MaxQuadTicks - 1) :
          (QuadReached /\ pc = "check_input" /\ time = t)
             ~> (QuadReached /\ pc = "check_input" /\ time = t + 1)

\* The second poll of the quad phase: one whole quad tick has run.
QuadPhaseTerminalWitness ==
    /\ QuadReached /\ pc = "check_input" /\ time = 4 * FPS + 1
    /\ ndraws = 4 * FPS + 1 /\ drawn.indices = quad_indices

(* ---------------------------------------------------------------------- *)
\* C13: Single outstanding map.  The number of outstanding maps is 0 or
\* 1; a map is issued only while the buffer is unmapped, an unmap only
\* while it is mapped, and at the start and at the end of every tick the
\* buffer is unmapped.
SingleOutstandingMap ==
    /\ outstanding_maps \in {0, 1}
    /\ mapped <=> outstanding_maps = 1
    /\ pc = "map" => outstanding_maps = 0
    /\ pc = "unmap" => outstanding_maps = 1
    /\ pc \in {"check_input", "sleep"} => outstanding_maps = 0
    /\ pc \in {"set_uniform", "draw", "incr", "load_elements"}
          => outstanding_maps = 0

\* The end of the second tick: two maps and two unmaps have been issued.
SingleOutstandingMapWitness ==
    /\ pc = "sleep" /\ time = 2 /\ ndraws = 2
    /\ outstanding_maps = 0 /\ ~mapped

(* ---------------------------------------------------------------------- *)
\* C14: Setup ordering of the shared buffer.  The storage is allocated
\* before the registration, the registration happens exactly once and
\* before the first map, it declares write-discard usage, and the frame
\* loop never unregisters or re-registers the buffer.
SetupOrdering ==
    /\ [](registered => rsrc.gl_uniform_buffer = SizeofRedsBuffer)
    /\ [](rsrc.registrations = IF registered THEN 1 ELSE 0)
    /\ [](registered
            => rsrc.cuda_flags = "cudaGraphicsRegisterFlagsWriteDiscard")
    /\ [](pc \in LoopPcs => registered)
    /\ []((mapped \/ ndraws > 0 \/ LastOp = "map") => registered)
    /\ [][registered
            => (registered' /\ rsrc'.registrations = rsrc.registrations
                /\ rsrc'.cuda_flags = rsrc.cuda_flags)]_vars

\* The first map, issued on the registered buffer.
SetupOrderingWitness ==
    /\ LastOp = "map" /\ mapped /\ time = 0 /\ registered
    /\ rsrc.registrations = 1 /\ rsrc.gl_uniform_buffer = SizeofRedsBuffer

(* ---------------------------------------------------------------------- *)
\* C15: GeometryStore.  Every value of the current index sequence, and of
\* the sequence every draw read, is an offset into the 4-vertex array, and
\* after its upload the vertex buffer is never written again.
GeometryStore ==
    /\ [](\A k \in 1..Len(gl_element_buffer) :
             gl_element_buffer[k] \in 0..(Len(vertices) - 1))
    /\ [](\A k \in 1..Len(drawn.indices) :
             drawn.indices[k] \in 0..(Len(vertices) - 1))
    /\ []((pc \in LoopPcs \/ ndraws > 0)
            => (rsrc.gl_vertex_buffer = vertices /\ rsrc.vertex_uploads = 1))
    /\ [][rsrc.vertex_uploads >= 1
            => (rsrc'.gl_vertex_buffer = rsrc.gl_vertex_buffer
                /\ rsrc'.vertex_uploads = rsrc.vertex_uploads)]_vars

\* A draw of the quad phase, after all four triangle phases.
GeometryStoreWitness ==
    /\ ndraws > 4 * FPS /\ drawn.indices = quad_indices
    /\ gl_element_buffer = quad_indices /\ rsrc.gl_vertex_buffer = vertices

(* ---------------------------------------------------------------------- *)
\* C16: Kernel coverage.  The launch of 16 groups of NREDS / 16
\* work-items writes every element 0..NREDS-1 exactly once and nothing
\* outside; the last element is set.
KernelCoverageComplete ==
    /\ GridDim = 16 /\ GridDim * BlockDim = NREDS
    /\ reds_time # Undef =>
          /\ reds_coverage = [writes |-> NREDS, distinct |-> NREDS,
                              lo |-> 0, hi |-> NREDS - 1]
          /\ NREDS - 1 \in DOMAIN reds
          /\ \A tid \in DOMAIN reds : reds[tid] = RedValue(tid, reds_time)

\* The launch of the second tick has run.
KernelCoverageCompleteWitness ==
    /\ LastOp = "launch" /\ failed_op = "none" /\ reds_time = 1
    /\ reds[NREDS - 1] = RedValue(NREDS - 1, 1)

(* ---------------------------------------------------------------------- *)
\* C17: Kernel independence.  What a launch leaves in element i depends
\* only on (i, time): not on what the buffer held before and not on the
\* order in which the work-items run, so every interleaving ends with the
\* same buffer and so do two launches with the same time.
KernelIndependence ==
    /\ [](\A w \in ran :
            reds[ThreadId(w[1], w[2])] = RedValue(ThreadId(w[1], w[2]), time))
    /\ [](ran = KernelSample
            => reds = [tid \in SampleTids |-> RedValue(tid, time)])
    /\ [][ \A tid \in SampleTids :
              reds'[tid] # reds[tid]
                 => \E w \in ran' \ ran : ThreadId(w[1], w[2]) = tid ]_vars

\* Every sampled work-item has run, over a buffer that held the values of
\* the launch before.
KernelIndependenceWitness ==
    /\ ran = KernelSample /\ time >= 1 /\ reds_time = time - 1
    /\ reds[NREDS - 1] = RedValue(NREDS - 1, time)

(* ---------------------------------------------------------------------- *)
\* C18: Binding persistence.  The shared buffer is bound to block-binding
\* slot 0 exactly once, during setup; no step of the frame loop changes
\* the binding, and every draw finds the same buffer at slot 0.
BindingPersistence ==
    /\ []((pc \in LoopPcs \/ ndraws > 0)
            => (rsrc.slot0 = "gl_uniform_buffer" /\ rsrc.slot0_binds = 1))
    /\ [](rsrc.slot0_binds <= 1)
    /\ [][pc \notin GlSetupPcs
            => (rsrc'.slot0 = rsrc.slot0
                /\ rsrc'.slot0_binds = rsrc.slot0_binds)]_vars

\* A draw after a whole map, launch, unmap and load_elements history.
BindingPersistenceWitness ==
    /\ LastOp = "draw" /\ ndraws = FPS + 1 /\ nuploads = 2
    /\ rsrc.slot0 = "gl_uniform_buffer" /\ rsrc.slot0_binds = 1

(* ---------------------------------------------------------------------- *)
\* C19: Index uploads only at phase boundaries.  load_elements runs only
\* right before the first tick of a phase (counter 0, FPS, 2*FPS, 3*FPS,
\* 4*FPS), never between the poll and the draw of a tick; each upload
\* replaces the whole index sequence; there are at most 5 uploads, and
\* exactly 5 once the quad phase is reached.
IndexUploadsAtPhaseBoundaries ==
    /\ []((pc = "load_elements" \/ LastOp = "load_elements")
            => (i \in 0..4 /\ time = i * FPS /\ ndraws = time))
    /\ [](pc = "load_elements" => LastOp \in {"register", "usleep"})
    /\ [](LastOp = "load_elements" => pc \in {"check_input", "exited"})
    /\ [](nuploads <= 5)
    /\ [](QuadReached => nuploads = 5)
    /\ [][(gl_element_buffer' # gl_element_buffer \/ nuploads' # nuploads)
            => /\ pc = "load_elements"
               /\ gl_element_buffer' = elements_arg(i)
               /\ nuploads' = nuploads + 1]_vars

\* The fifth upload has replaced the last triangle by the quad.
IndexUploadsAtPhaseBoundariesWitness ==
    /\ LastOp = "load_elements" /\ nuploads = 5 /\ time = 4 * FPS
    /\ gl_element_buffer = quad_indices

(* ---------------------------------------------------------------------- *)
\* C20: Stage source assembly.  For each stage, the source submitted for
\* compilation is the stage source followed by the shared utility source.
StageSourceAssembly ==
    /\ "vertex" \in rsrc.compiled
          => rsrc.sources["vertex"] = <<"vertex.glsl", "util.glsl">>
    /\ "fragment" \in rsrc.compiled
          => rsrc.sources["fragment"] = <<"fragment.glsl", "util.glsl">>

(* ---------------------------------------------------------------------- *)
\* C21: Draw count matches the index sequence.  At every draw the vertex
\* count passed to draw_frame is the length of the index sequence last
\* uploaded: 3 in each triangle phase, 4 in the quad phase.
DrawCountMatchesIndices ==
    /\ pc = "draw" => nvertices_arg(i) = Len(gl_element_buffer)
    /\ ndraws > 0 =>
          /\ drawn.nvertices = Len(drawn.indices)
          /\ drawn.nvertices = IF drawn.time < 4 * FPS THEN 3 ELSE 4

\* A draw of the last triangle phase has been followed by a quad draw.
DrawCountMatchesIndicesWitness ==
    /\ LastOp = "draw" /\ ndraws = 4 * FPS + 1 /\ nuploads = 5
    /\ drawn.nvertices = 4 /\ Len(drawn.indices) = 4

====
